---- MODULE Spec2Model ----
(***************************************************************************)
(* A model of the "Generate Snippet" editor extension (src/src/extension.ts).*)
(*                                                                         *)
(* Strings are TLA+ strings; a character is a string of length one.  An    *)
(* optional string (string | undefined in the source) is a sequence of at  *)
(* most one string: << >> is undefined, <<s>> is the string s.             *)
(***************************************************************************)
EXTENDS Integers, Sequences, FiniteSets, TLC

VARIABLES
    host,     \* the editor's product name and the process environment
    files,    \* the file system's files: path -> text
    dirs,     \* the file system's directories
    pc,       \* each invocation's position in the command handler
    loc,      \* each invocation's local variables
    notif,    \* the notifications each invocation has shown, in order
    fx,       \* what each invocation has done to the file system
    lastSaved,\* per path, the entry of the latest successful save of each name
    probe     \* the input and output of a pure function under test

vars == <<host, files, dirs, pc, loc, notif, fx, lastSaved, probe>>

\* ------------------------------------------------------------------ bounds

\* Number of command invocations that may be in flight together.
NumInvocations == 2
\* Longest text given to escapeSnippetText in SpecEscape.
MaxTextLen == 3
\* Longest file content given to formatParseErrors in SpecFormat.
MaxContentLen == 4

\* ----------------------------------------------------------------- strings

Undefined == << >>
Some(s) == <<s>>
\* JavaScript truthiness of a string | undefined value.
TruthyDefinedOnly(o) == o # Undefined
Truthy(o) == o # Undefined /\ o[1] # ""

CharAt(s, i) == SubSeq(s, i, i)

\* All strings over the alphabet A of length at most n.
RECURSIVE StringsUpTo(_, _)
StringsUpTo(A, n) ==
    IF n = 0 THEN {""}
    ELSE LET S == StringsUpTo(A, n - 1) IN S \cup {s \o c : s \in S, c \in A}

\* s.split(sep) for a one-character separator: the pieces, in order.
RECURSIVE SplitFrom(_, _, _, _)
SplitFrom(s, sep, i, cur) ==
    IF i > Len(s) THEN <<cur>>
    ELSE IF CharAt(s, i) = sep THEN <<cur>> \o SplitFrom(s, sep, i + 1, "")
    ELSE SplitFrom(s, sep, i + 1, cur \o CharAt(s, i))

Split(s, sep) == SplitFrom(s, sep, 1, "")

\* s.replace(/c/g, rep) for a one-character pattern c.
RECURSIVE ReplaceAll(_, _, _)
ReplaceAll(s, c, rep) ==
    IF s = "" THEN ""
    ELSE (IF CharAt(s, 1) = c THEN rep ELSE CharAt(s, 1))
         \o ReplaceAll(SubSeq(s, 2, Len(s)), c, rep)

\* s.includes(sub)
Includes(s, sub) ==
    \E i \in 1..(Len(s) - Len(sub) + 1) : SubSeq(s, i, i + Len(sub) - 1) = sub

WhiteSpace == {" ", "\t", "\n", "\r"}

\* s.trim()
RECURSIVE TrimStart(_)
TrimStart(s) ==
    IF s # "" /\ CharAt(s, 1) \in WhiteSpace THEN TrimStart(SubSeq(s, 2, Len(s)))
    ELSE s

RECURSIVE TrimEnd(_)
TrimEnd(s) ==
    IF s # "" /\ CharAt(s, Len(s)) \in WhiteSpace THEN TrimEnd(SubSeq(s, 1, Len(s) - 1))
    ELSE s

Trim(s) == TrimEnd(TrimStart(s))

Upper == "ABCDEFGHIJKLMNOPQRSTUVWXYZ"
Lower == "abcdefghijklmnopqrstuvwxyz"

LowerChar(c) ==
    IF \E k \in 1..Len(Upper) : CharAt(Upper, k) = c
    THEN CharAt(Lower, CHOOSE k \in 1..Len(Upper) : CharAt(Upper, k) = c)
    ELSE c

\* s.toLowerCase()
RECURSIVE ToLowerCase(_)
ToLowerCase(s) ==
    IF s = "" THEN "" ELSE LowerChar(CharAt(s, 1)) \o ToLowerCase(SubSeq(s, 2, Len(s)))

\* seq.map(p => p.trim())
TrimEach(seq) == [i \in 1..Len(seq) |-> Trim(seq[i])]

\* seq.filter(p => p !== '')
RECURSIVE FilterNonEmpty(_)
FilterNonEmpty(seq) ==
    IF seq = << >> THEN << >>
    ELSE (IF Head(seq) # "" THEN <<Head(seq)>> ELSE << >>) \o FilterNonEmpty(Tail(seq))

\* ------------------------------------------------------- escapeSnippetText

BackSlash == "\\"
Quote == "\""
Tab == "\t"
CR == "\r"
LF == "\n"

EscapeLineQuoteFirst(line) ==
    ReplaceAll(ReplaceAll(ReplaceAll(ReplaceAll(line,
        Quote, BackSlash \o Quote),
        BackSlash, BackSlash \o BackSlash),
        Tab, BackSlash \o "t"),
        CR, "")

\* The per-line chain of four replacements, in the source's order.
EscapeLine(line) ==
    ReplaceAll(ReplaceAll(ReplaceAll(ReplaceAll(line,
        BackSlash, BackSlash \o BackSlash),
        Quote, BackSlash \o Quote),
        Tab, BackSlash \o "t"),
        CR, "")

\* lines.map(line => ...)
EscapeEach(lines) == [i \in 1..Len(lines) |-> EscapeLine(lines[i])]

escapeSnippetText(text) == EscapeEach(Split(text, LF))

\* ------------------------------------------------------------- file text
(***************************************************************************)
(* The text of a snippets file is a sequence of lexical units, each         *)
(* standing at one offset: punctuation, a string literal (str), any other   *)
(* literal (lit: null, an array of strings), a line feed, a blank, a        *)
(* comment, or a symbol that is no JSON (bad).                             *)
(***************************************************************************)
U(t) == [t |-> t]
UStr(s) == [t |-> "str", s |-> s]
ULit(v) == [t |-> "lit", v |-> v]
NL == U("\n")
SP == U(" ")

\* Parsed JSON values.  An object is its properties in insertion order.
JUndefined == [j |-> "undefined"]
JNull == [j |-> "null"]
JStr(s) == [j |-> "str", s |-> s]
JArr(items) == [j |-> "arr", items |-> items]
JObj(props) == [j |-> "obj", props |-> props]

HasKey(props, k) == \E i \in 1..Len(props) : props[i].k = k
GetProp(props, k) == props[CHOOSE i \in 1..Len(props) : props[i].k = k].v
Keys(props) == {props[i].k : i \in 1..Len(props)}

\* obj[k] = v on an ordinary object: an existing key keeps its place.
SetProp(props, k, v) ==
    IF HasKey(props, k)
    THEN [i \in 1..Len(props) |-> IF props[i].k = k THEN [k |-> k, v |-> v] ELSE props[i]]
    ELSE Append(props, [k |-> k, v |-> v])

\* --------------------------------------------- jsonc.parse (the library)

Trivia == {"\n", " ", "//"}
Tok(c, p) == IF p > Len(c) THEN "EOF" ELSE c[p].t
AddErr(st, code) ==
    [st EXCEPT !.errs = Append(@, [error |-> code, offset |-> st.pos - 1])]

\* The scanner's next significant token at or after unit i; a symbol that
\* is no JSON is reported and passed over.
RECURSIVE ScanFrom(_, _, _)
ScanFrom(c, i, errs) ==
    IF i > Len(c) THEN [pos |-> Len(c) + 1, errs |-> errs]
    ELSE IF c[i].t \in Trivia THEN ScanFrom(c, i + 1, errs)
    ELSE IF c[i].t = "bad"
         THEN ScanFrom(c, i + 1, Append(errs, [error |-> "InvalidSymbol", offset |-> i - 1]))
    ELSE [pos |-> i, errs |-> errs]

ScanNext(c, st) == ScanFrom(c, st.pos + 1, st.errs)

RECURSIVE SkipTo(_, _, _, _)
SkipTo(c, st, after, until) ==
    LET t == Tok(c, st.pos) IN
    IF t = "EOF" THEN st
    ELSE IF t \in after THEN ScanNext(c, st)
    ELSE IF t \in until THEN st
    ELSE SkipTo(c, ScanNext(c, st), after, until)

HandleError(c, st, code, after, until) == SkipTo(c, AddErr(st, code), after, until)

RECURSIVE ParseValue(_, _)
RECURSIVE ParseObject(_, _, _, _)

ObjectEnd(c, st, props) ==
    IF Tok(c, st.pos) # "}"
    THEN [st |-> HandleError(c, st, "CloseBraceExpected", {"}"}, {}), props |-> props]
    ELSE [st |-> ScanNext(c, st), props |-> props]

ParseProperty(c, st, props) ==
    IF Tok(c, st.pos) # "str"
    THEN [st |-> HandleError(c,
                    HandleError(c, st, "PropertyNameExpected", {}, {"}", ","}),
                    "ValueExpected", {}, {"}", ","}),
          props |-> props]
    ELSE LET key == c[st.pos].s
             s1 == ScanNext(c, st)
         IN IF Tok(c, s1.pos) = ":"
            THEN LET v == ParseValue(c, ScanNext(c, s1))
                 IN IF v.ok
                    THEN [st |-> v.st, props |-> SetProp(props, key, v.value)]
                    ELSE [st |-> HandleError(c, v.st, "ValueExpected", {}, {"}", ","}),
                          props |-> props]
            ELSE [st |-> HandleError(c, s1, "ColonExpected", {}, {"}", ","}),
                  props |-> props]

ParseObject(c, st, needsComma, props) ==
    LET t == Tok(c, st.pos) IN
    IF t \in {"}", "EOF"} THEN ObjectEnd(c, st, props)
    ELSE LET a == IF t = ","
                  THEN ScanNext(c, IF needsComma THEN st ELSE AddErr(st, "ValueExpected"))
                  ELSE IF needsComma THEN AddErr(st, "CommaExpected") ELSE st
         IN IF t = "," /\ Tok(c, a.pos) = "}"   \* allowTrailingComma
            THEN ObjectEnd(c, a, props)
            ELSE LET p == ParseProperty(c, a, props)
                 IN ParseObject(c, p.st, TRUE, p.props)

ParseValue(c, st) ==
    LET t == Tok(c, st.pos) IN
    CASE t = "{" ->
            LET r == ParseObject(c, ScanNext(c, st), FALSE, << >>)
            IN [ok |-> TRUE, value |-> JObj(r.props), st |-> r.st]
      [] t = "str" -> [ok |-> TRUE, value |-> JStr(c[st.pos].s), st |-> ScanNext(c, st)]
      [] t = "lit" -> [ok |-> TRUE, value |-> c[st.pos].v, st |-> ScanNext(c, st)]
      [] OTHER -> [ok |-> FALSE, value |-> JUndefined, st |-> st]

\* jsonc.parse(content, parseErrors, { allowTrailingComma: true })
ParseRootEnd(c, v) ==
    IF ~v.ok THEN [value |-> JUndefined, errors |-> AddErr(v.st, "ValueExpected").errs]
    ELSE IF Tok(c, v.st.pos) # "EOF"
    THEN [value |-> v.value, errors |-> AddErr(v.st, "EndOfFileExpected").errs]
    ELSE [value |-> v.value, errors |-> v.st.errs]

ParseRoot(c, s0) ==
    IF Tok(c, s0.pos) = "EOF"
    THEN [value |-> JUndefined, errors |-> AddErr(s0, "ValueExpected").errs]
    ELSE ParseRootEnd(c, ParseValue(c, s0))

JsoncParse(c) == ParseRoot(c, ScanFrom(c, 1, << >>))

\* ----------------------------------------- JSON.stringify(value, null, 2)

\* n blanks
RECURSIVE Blanks(_)
Blanks(n) == IF n = 0 THEN << >> ELSE <<SP>> \o Blanks(n - 1)

\* The third argument of JSON.stringify.
Indent == 2

RECURSIVE StringifyValue(_, _)
RECURSIVE StringifyProps(_, _, _)
StringifyProps(props, i, depth) ==
    IF i > Len(props) THEN << >>
    ELSE <<NL>> \o Blanks(Indent * depth) \o <<UStr(props[i].k), U(":"), SP>>
         \o StringifyValue(props[i].v, depth)
         \o (IF i < Len(props) THEN <<U(",")>> ELSE << >>)
         \o StringifyProps(props, i + 1, depth)

StringifyValue(v, depth) ==
    CASE v.j = "obj" ->
            IF v.props = << >> THEN <<U("{"), U("}")>>
            ELSE <<U("{")>> \o StringifyProps(v.props, 1, depth + 1)
                 \o <<NL>> \o Blanks(Indent * depth) \o <<U("}")>>
      [] v.j = "str" -> <<UStr(v.s)>>
      [] OTHER -> <<ULit(v)>>

JsonStringify(v) == StringifyValue(v, 0)

\* ------------------------------------------------------ formatParseErrors

\* content.split('\n') on units
RECURSIVE SplitLines(_, _, _)
SplitLines(c, i, cur) ==
    IF i > Len(c) THEN <<cur>>
    ELSE IF c[i] = NL THEN <<cur>> \o SplitLines(c, i + 1, << >>)
    ELSE SplitLines(c, i + 1, Append(cur, c[i]))

Min(a, b) == IF a < b THEN a ELSE b

\* content.lastIndexOf('\n', from): the greatest 0-based index <= from
\* holding a line feed, or -1.
LastIndexOfNL(c, from) ==
    LET hits == {k \in 0..Min(from, Len(c) - 1) : c[k + 1] = NL}
    IN IF hits = {} THEN -1 ELSE CHOOSE k \in hits : \A h \in hits : h <= k

FormatOne(content, error) ==
    LET lines == SplitLines(content, 1, << >>)
        lineIndex == Len(SplitLines(SubSeq(content, 1, Min(error.offset, Len(content))),
                                    1, << >>)) - 1
        errorLine == lines[lineIndex + 1]
        lastNewLine == LastIndexOfNL(content, error.offset)
        column == IF lastNewLine = -1 THEN error.offset
                  ELSE error.offset - lastNewLine - 1
    IN [line |-> lineIndex + 1, column |-> column + 1,
        error |-> error.error, text |-> errorLine]

formatParseErrors(content, parseErrors) ==
    [kind |-> "Parsing errors detected:",
     blocks |-> [i \in 1..Len(parseErrors) |-> FormatOne(content, parseErrors[i])]]

\* ------------------------------------------------------ parseSnippetsFile

\* fault: the parse mechanism itself throws.
ParseResult(content, r) ==
    IF Len(r.errors) > 0
    THEN [snippets |-> JNull, error |-> <<formatParseErrors(content, r.errors)>>]
    ELSE [snippets |-> r.value, error |-> << >>]

parseSnippetsFile(content, fault) ==
    IF fault THEN [snippets |-> JNull,
                   error |-> <<[kind |-> "Fatal parsing error: ", blocks |-> << >>]>>]
    ELSE ParseResult(content, JsoncParse(content))

\* ---------------------------------------------------------- path resolution

getEditorInfoLoose(appName) ==
    [isVSCode |-> Includes(appName, "Visual Studio Code"),
     isCursor |-> Includes(appName, "Cursor"),
     appName |-> appName]

getEditorInfo(appName) ==
    [isVSCode |-> appName = "Visual Studio Code",
     isCursor |-> Includes(appName, "Cursor"),
     appName |-> appName]

\* isVSCode ? 'Code' : isCursor ? 'Cursor' : appName
ConfigFolder(appName) ==
    LET e == getEditorInfo(appName)
    IN IF e.isVSCode THEN "Code" ELSE IF e.isCursor THEN "Cursor" ELSE e.appName

\* process.env.APPDATA || process.env.HOME || ''
BaseDir(h) ==
    IF Truthy(h.APPDATA) THEN h.APPDATA[1]
    ELSE IF Truthy(h.HOME) THEN h.HOME[1]
    ELSE ""

Sep(platform) == IF platform = "win32" THEN "\\" ELSE "/"

\* path.join: the non-empty segments joined by the platform's separator
\* (no segment of the model holds a separator run or a dot segment).
RECURSIVE JoinWith(_, _)
JoinWith(sep, segs) ==
    IF segs = << >> THEN ""
    ELSE IF Len(segs) = 1 THEN segs[1]
    ELSE segs[1] \o sep \o JoinWith(sep, Tail(segs))

PathJoin(sep, segs) ==
    LET joined == JoinWith(sep, FilterNonEmpty(segs))
    IN IF joined = "" THEN "." ELSE joined

\* path.dirname
Dirname(sep, p) ==
    LET cuts == {i \in 1..Len(p) : CharAt(p, i) = sep}
    IN IF cuts = {} THEN "."
       ELSE LET last == CHOOSE i \in cuts : \A j \in cuts : j <= i
            IN IF last = 1 THEN sep ELSE SubSeq(p, 1, last - 1)

SnippetsPath(h, language) ==
    PathJoin(Sep(h.platform),
             <<BaseDir(h), ConfigFolder(h.appName), "User", "snippets",
               language \o ".json">>)

\* The directories fs.mkdirSync(dir, { recursive: true }) makes exist.
RECURSIVE WithAncestors(_, _)
WithAncestors(sep, d) ==
    IF d \in {".", sep} \/ Dirname(sep, d) = d THEN {d}
    ELSE {d} \cup WithAncestors(sep, Dirname(sep, d))

\* ------------------------------------------------------ snippet entries

SnippetBody(prefix, body, description) ==
    JObj(<<[k |-> "prefix", v |-> JArr(prefix)],
           [k |-> "body", v |-> JArr(body)],
           [k |-> "description", v |-> JStr(description)]>>)

\* The own enumerable properties  ...(snippets || {})  copies.
Spread(v) ==
    CASE v.j = "obj" -> v.props
      [] v.j = "arr" -> [i \in 1..Len(v.items) |->
                            [k |-> ToString(i - 1), v |-> JStr(v.items[i])]]
      [] v.j = "str" -> [i \in 1..Len(v.s) |->
                            [k |-> ToString(i - 1), v |-> JStr(CharAt(v.s, i))]]
      [] OTHER -> << >>

MergeDroppingOthers(snippets, name, newSnippet) ==
    SetProp(<< >>, name, newSnippet)

\* { ...(snippets || {}), [snippetInfo.name]: newSnippet }
Merge(snippets, name, newSnippet) ==
    SetProp(Spread(snippets), name, newSnippet)

\* prefixInput.split(',').map(p => p.trim()).filter(p => p !== '')
ParsePrefixes(prefixInput) == FilterNonEmpty(TrimEach(Split(prefixInput, ",")))

\* ------------------------------------------------------------ the inputs

Procs == 1..NumInvocations

AppNames ==
    {"Visual Studio Code", "Visual Studio Code - Insiders", "Cursor", "Cursor Nightly",
     "FooEditor"}

Envs ==
    {[platform |-> "linux", APPDATA |-> Undefined, HOME |-> Some("/home/u")],
     [platform |-> "win32", APPDATA |-> Some("C:\\Users\\u\\AppData\\Roaming"),
      HOME |-> Undefined],
     [platform |-> "linux", APPDATA |-> Undefined, HOME |-> Undefined]}

Host(a, e) ==
    [appName |-> a, platform |-> e.platform, APPDATA |-> e.APPDATA, HOME |-> e.HOME]

Hosts == {Host(a, e) : a \in AppNames, e \in Envs}

\* The hosts of the specification with overlapping invocations.
LinuxEnv == [platform |-> "linux", APPDATA |-> Undefined, HOME |-> Some("/home/u")]
FewHosts == {Host("Visual Studio Code", LinuxEnv)}

OldEntry == SnippetBody(<<"old">>, <<"x">>, "kept")
OldEntryUnits == JsonStringify(OldEntry)

\* Texts a snippets file may hold before the first invocation.
InitialContents ==
    {<<U("{"), U("}")>>,
     \* a comment, two entries and a trailing comma
     <<U("{"), NL, U("//"), NL, UStr("A"), U(":")>> \o OldEntryUnits \o <<U(","), NL,
       UStr("Z"), U(":")>> \o OldEntryUnits \o <<U(","), NL, U("}")>>,
     \* a colon missing on the second line
     <<U("{"), NL, SP, UStr("Z"), SP>> \o OldEntryUnits \o <<NL, U("}")>>,
     \* a symbol that is no JSON, and the closing brace missing
     <<U("{"), UStr("Z"), U(":"), U("bad"), NL>>,
     \* the literal null
     <<ULit(JNull)>>}

Texts == {"", "a\t\"b\"\r\nc\\"}
DocLangs == {"python", "plaintext"}
NameAnswers == {Undefined, Some(""), Some("A"), Some("B")}
PrefixAnswers == {Undefined, Some(""), Some(" , "), Some("a, b")}
DescAnswers == {Undefined, Some(""), Some("d")}
LangAnswers == {Undefined, Some(""), Some("Python")}
Faults == {"none", "mkdir", "read", "parse", "write"}

NoLoc ==
    [text |-> "", languageId |-> "", name |-> "", prefixInput |-> "",
     description |-> Undefined, info |-> << >>, outcome |-> "", error |-> << >>]

NoFx ==
    [saves |-> 0, mkdirs |-> 0, reads |-> 0, writes |-> 0,
     path |-> "", name |-> "", language |-> ""]

NoProbe == [fn |-> "none"]

Msg(kind, text, detail) == [kind |-> kind, text |-> text, detail |-> detail]

\* Name -> value, for a sequence of properties with distinct keys.
AsMap(props) == [k \in Keys(props) |-> GetProp(props, k)]

\* --------------------------------------------------------------- Init

InitFs(h, withFile, content) ==
    LET path == SnippetsPath(h, "python")
        tree == WithAncestors(Sep(h.platform), Dirname(Sep(h.platform), path))
    IN /\ files = IF withFile THEN (path :> content) ELSE << >>
       /\ dirs = IF withFile THEN tree ELSE {}
       /\ lastSaved =
            IF withFile /\ JsoncParse(content).errors = << >>
            THEN (path :> AsMap(Spread(JsoncParse(content).value)))
            ELSE << >>

InitIdle ==
    /\ pc = [i \in Procs |-> "idle"]
    /\ loc = [i \in Procs |-> NoLoc]
    /\ notif = [i \in Procs |-> << >>]
    /\ fx = [i \in Procs |-> NoFx]

InitIn(hosts) ==
    /\ host \in hosts
    /\ \E withFile \in BOOLEAN, content \in InitialContents :
          InitFs(host, withFile, content)
    /\ InitIdle
    /\ probe = NoProbe

Init == InitIn(FewHosts)

\* Every host, for the specification of one invocation at a time.
InitHosts == InitIn(Hosts)

\* ------------------------------------------------- the command handler

Finish(i, outcome, shown) ==
    /\ pc' = [pc EXCEPT ![i] = "done"]
    /\ loc' = [loc EXCEPT ![i] = [NoLoc EXCEPT !.outcome = outcome]]
    /\ notif' = [notif EXCEPT ![i] = @ \o shown]

\* The command is invoked: the handler runs to the name prompt.
Trigger(i) ==
    /\ pc[i] = "idle"
    /\ \E editor \in BOOLEAN, text \in Texts, languageId \in DocLangs :
          IF ~editor
          THEN Finish(i, "noEditor", <<Msg("error", "No active editor", << >>)>>)
          ELSE IF text = ""
          THEN Finish(i, "noSelection", <<Msg("error", "No text selected", << >>)>>)
          ELSE /\ pc' = [pc EXCEPT ![i] = "name"]
               /\ loc' = [loc EXCEPT ![i].text = text, ![i].languageId = languageId]
               /\ UNCHANGED notif
    /\ UNCHANGED <<host, files, dirs, fx, lastSaved, probe>>

\* The name prompt resolves.
NameAnswered(i) ==
    /\ pc[i] = "name"
    /\ \E snippetName \in NameAnswers :
          IF ~Truthy(snippetName)
          THEN Finish(i, "cancelName", << >>)
          ELSE /\ pc' = [pc EXCEPT ![i] = "prefix"]
               /\ loc' = [loc EXCEPT ![i].name = snippetName[1]]
               /\ UNCHANGED notif
    /\ UNCHANGED <<host, files, dirs, fx, lastSaved, probe>>

\* The prefixes prompt resolves.
PrefixAnswered(i) ==
    /\ pc[i] = "prefix"
    /\ \E prefixInput \in PrefixAnswers :
          IF ~Truthy(prefixInput)
          THEN Finish(i, "cancelPrefix", << >>)
          ELSE /\ pc' = [pc EXCEPT ![i] = "desc"]
               /\ loc' = [loc EXCEPT ![i].prefixInput = prefixInput[1]]
               /\ UNCHANGED notif
    /\ UNCHANGED <<host, files, dirs, fx, lastSaved, probe>>

\* What collectSnippetInfo returns, from the locals.
SnippetInfo(l, language) ==
    [name |-> l.name,
     prefixes |-> ParsePrefixes(l.prefixInput),
     description |-> IF Truthy(l.description) THEN l.description[1] ELSE l.name,
     language |-> language]

\* collectSnippetInfo returns: the handler holds selectedText and snippetInfo.
Collected(i, l, language) ==
    /\ pc' = [pc EXCEPT ![i] = "save"]
    /\ loc' = [loc EXCEPT ![i] = [NoLoc EXCEPT !.text = l.text,
                                               !.info = <<SnippetInfo(l, language)>>]]

\* The description prompt resolves; determineLanguage runs to its return
\* or to its prompt.
DescriptionAnswered(i) ==
    /\ pc[i] = "desc"
    /\ \E description \in DescAnswers :
          LET languageId == loc[i].languageId IN
          IF languageId # "" /\ languageId # "plaintext"
          THEN Collected(i, [loc[i] EXCEPT !.description = description], languageId)
          ELSE /\ pc' = [pc EXCEPT ![i] = "lang"]
               /\ loc' = [loc EXCEPT ![i].description = description]
    /\ UNCHANGED <<host, files, dirs, notif, fx, lastSaved, probe>>

\* The language prompt resolves.
LanguageAnswered(i) ==
    /\ pc[i] = "lang"
    /\ \E language \in LangAnswers :
          IF ~Truthy(language)
          THEN Finish(i, "cancelLang", << >>)
          ELSE /\ Collected(i, loc[i], ToLowerCase(language[1]))
               /\ UNCHANGED notif
    /\ UNCHANGED <<host, files, dirs, fx, lastSaved, probe>>

\* What one run of saveSnippet leaves behind.  c holds the call's arguments,
\* the file system it found, and the paths it computed.
Thrown(c, message, detail, ds, mkdirs, reads) ==
    [ok |-> FALSE, message |-> message, detail |-> detail, path |-> c.snippetsPath,
     files |-> c.fs, dirs |-> ds, mkdirs |-> mkdirs, reads |-> reads, writes |-> 0,
     entry |-> JNull]

Written(c, text, newSnippet, ds, mkdirs, reads) ==
    [ok |-> TRUE, message |-> "", detail |-> << >>, path |-> c.snippetsPath,
     files |-> (c.snippetsPath :> text) @@ c.fs, dirs |-> ds, mkdirs |-> mkdirs,
     reads |-> reads, writes |-> 1, entry |-> newSnippet]

NewSnippet(c) ==
    SnippetBody(c.snippetInfo.prefixes, escapeSnippetText(c.selectedText),
                c.snippetInfo.description)

\* Lines 267-286: the new entry is merged and the file rewritten.
MergeAndWrite(c, snippets, ds, mkdirs, reads) ==
    IF c.fault = "write"
    THEN Thrown(c, "ENOSPC: no space left on device, write", << >>, ds, mkdirs, reads)
    ELSE Written(c, JsonStringify(JObj(Merge(snippets, c.snippetInfo.name, NewSnippet(c)))),
                 NewSnippet(c), ds, mkdirs, reads)

ParseThenWriteIgnoringErrors(c, parsed, ds, mkdirs, reads) ==
    MergeAndWrite(c, parsed.snippets, ds, mkdirs, reads)

\* Lines 261-265: the existing content is parsed.
ParseThenWrite(c, parsed, ds, mkdirs, reads) ==
    IF parsed.error # << >>
    THEN Thrown(c, "Error parsing existing snippets: ", parsed.error, ds, mkdirs, reads)
    ELSE MergeAndWrite(c, parsed.snippets, ds, mkdirs, reads)

ReadThenWriteNeverReading(c, ds, mkdirs) ==
    ParseThenWrite(c, parseSnippetsFile(<<U("{"), U("}")>>, c.fault = "parse"),
                   ds, mkdirs, 0)

\* Lines 255-259: the existing content is read, or is '{}'.
ReadThenWrite(c, ds, mkdirs) ==
    IF c.snippetsPath \in DOMAIN c.fs
    THEN IF c.fault = "read"
         THEN Thrown(c, "EACCES: permission denied, open", << >>, ds, mkdirs, 0)
         ELSE ParseThenWrite(c, parseSnippetsFile(c.fs[c.snippetsPath], c.fault = "parse"),
                             ds, mkdirs, 1)
    ELSE ParseThenWrite(c, parseSnippetsFile(<<U("{"), U("}")>>, c.fault = "parse"),
                        ds, mkdirs, 0)

\* Lines 249-253: the directory is made when it is missing.
MkdirThenWrite(c) ==
    IF c.snippetsDir \notin c.ds
    THEN IF c.fault = "mkdir"
         THEN Thrown(c, "EACCES: permission denied, mkdir", << >>, c.ds, 0, 0)
         ELSE ReadThenWrite(c, c.ds \cup WithAncestors(c.sep, c.snippetsDir), 1)
    ELSE ReadThenWrite(c, c.ds, 0)

\* saveSnippet, which holds no await: one step.  fault names the call that
\* throws, if any.
saveSnippet(h, fs, ds, snippetInfo, selectedText, fault) ==
    MkdirThenWrite([sep |-> Sep(h.platform), fs |-> fs, ds |-> ds,
                    snippetsPath |-> SnippetsPath(h, snippetInfo.language),
                    snippetsDir |-> Dirname(Sep(h.platform),
                                            SnippetsPath(h, snippetInfo.language)),
                    snippetInfo |-> snippetInfo, selectedText |-> selectedText,
                    fault |-> fault])

\* The state after saveSnippet has settled with outcome r.
Settle(i, info, r) ==
    /\ files' = r.files
    /\ dirs' = r.dirs
    /\ fx' = [fx EXCEPT ![i] =
                 [saves |-> @.saves + 1, mkdirs |-> @.mkdirs + r.mkdirs,
                  reads |-> @.reads + r.reads, writes |-> @.writes + r.writes,
                  path |-> r.path, name |-> info.name, language |-> info.language]]
    /\ loc' = [loc EXCEPT ![i] =
                 [NoLoc EXCEPT !.name = info.name,
                               !.outcome = IF r.ok THEN "saved" ELSE "failed",
                               !.error = IF r.ok THEN << >>
                                         ELSE <<[message |-> r.message,
                                                 detail |-> r.detail]>>]]
    /\ lastSaved' =
         IF r.ok
         THEN (r.path :> ((info.name :> r.entry)
                          @@ (IF r.path \in DOMAIN lastSaved
                              THEN lastSaved[r.path] ELSE << >>)))
              @@ lastSaved
         ELSE lastSaved

\* The try block up to the end of saveSnippet.
Save(i) ==
    /\ pc[i] = "save"
    /\ \E fault \in Faults :
          Settle(i, loc[i].info[1],
                 saveSnippet(host, files, dirs, loc[i].info[1], loc[i].text, fault))
    /\ pc' = [pc EXCEPT ![i] = "notify"]
    /\ UNCHANGED <<host, notif, probe>>

NotifySuccessAfterCatch(i) ==
    /\ pc[i] = "notify"
    /\ pc' = [pc EXCEPT ![i] = "done"]
    /\ notif' = [notif EXCEPT ![i] =
          (IF loc[i].outcome = "saved" THEN @
           ELSE Append(@, Msg("error",
                              "Error creating snippet: Error: " \o loc[i].error[1].message,
                              loc[i].error[1].detail)))
          \o <<Msg("info", "Snippet \"" \o loc[i].name \o "\" added successfully!", << >>)>>]
    /\ loc' = [loc EXCEPT ![i] = [NoLoc EXCEPT !.outcome = loc[i].outcome]]
    /\ UNCHANGED <<host, files, dirs, fx, lastSaved, probe>>

\* The await of saveSnippet resolves or rejects: the notification.
Notify(i) ==
    /\ pc[i] = "notify"
    /\ pc' = [pc EXCEPT ![i] = "done"]
    /\ notif' = [notif EXCEPT ![i] = Append(@,
          IF loc[i].outcome = "saved"
          THEN Msg("info", "Snippet \"" \o loc[i].name \o "\" added successfully!", << >>)
          ELSE Msg("error", "Error creating snippet: Error: " \o loc[i].error[1].message,
                   loc[i].error[1].detail))]
    /\ loc' = [loc EXCEPT ![i] = [NoLoc EXCEPT !.outcome = loc[i].outcome]]
    /\ UNCHANGED <<host, files, dirs, fx, lastSaved, probe>>

Step(i) ==
    \/ Trigger(i)
    \/ NameAnswered(i)
    \/ PrefixAnswered(i)
    \/ DescriptionAnswered(i)
    \/ LanguageAnswered(i)
    \/ Save(i)
    \/ Notify(i)

\* Invocations overlap: between two awaits of one, any other may run.
Next == \E i \in Procs : Step(i)

Spec == Init /\ [][Next]_vars

\* One invocation, on every host.
NextFirst == Step(1)

SpecHosts == InitHosts /\ [][NextFirst]_vars

\* ------------------------------------------- the pure functions, applied

EscapeAlphabet == {"a", "t", BackSlash, Quote, Tab, CR, LF}

InitEscape ==
    /\ host \in FewHosts
    /\ InitFs(host, FALSE, << >>)
    /\ InitIdle
    /\ \E text \in StringsUpTo(EscapeAlphabet, MaxTextLen) :
          probe = [fn |-> "escape", text |-> text, lines |-> << >>, done |-> FALSE]

ApplyEscape ==
    /\ probe.fn = "escape"
    /\ ~probe.done
    /\ probe' = [probe EXCEPT !.lines = escapeSnippetText(probe.text), !.done = TRUE]
    /\ UNCHANGED <<host, files, dirs, pc, loc, notif, fx, lastSaved>>

SpecEscape == InitEscape /\ [][ApplyEscape]_vars

\* All sequences over the set A of length at most n.
RECURSIVE SeqsUpTo(_, _)
SeqsUpTo(A, n) ==
    IF n = 0 THEN {<< >>}
    ELSE LET S == SeqsUpTo(A, n - 1) IN S \cup {Append(q, a) : q \in S, a \in A}

ContentUnits == {NL, U("x")}

\* One or two reported errors, at any offsets of the content.
ErrorLists(content) ==
    LET E == {[error |-> "ValueExpected", offset |-> o] : o \in 0..Len(content)}
    IN {<<e>> : e \in E} \cup {<<e, f>> : e \in E, f \in E}

InitFormat ==
    /\ host \in FewHosts
    /\ InitFs(host, FALSE, << >>)
    /\ InitIdle
    /\ \E content \in SeqsUpTo(ContentUnits, MaxContentLen) :
          \E errors \in ErrorLists(content) :
             probe = [fn |-> "format", content |-> content, errors |-> errors,
                      blocks |-> << >>, done |-> FALSE]

ApplyFormat ==
    /\ probe.fn = "format"
    /\ ~probe.done
    /\ probe' = [probe EXCEPT !.blocks = formatParseErrors(probe.content, probe.errors).blocks,
                              !.done = TRUE]
    /\ UNCHANGED <<host, files, dirs, pc, loc, notif, fx, lastSaved>>

SpecFormat == InitFormat /\ [][ApplyFormat]_vars

\* ================================================================ claims

HasErrors(content) == JsoncParse(content).errors # << >>
ParsedMap(content) == AsMap(Spread(JsoncParse(content).value))
Cancelled(i) == loc[i].outcome \in {"cancelName", "cancelPrefix"}
Completed(i) == loc[i].outcome \in {"saved", "failed"}

\* C1: when the name prompt or the prefixes prompt resolves empty or
\* cancelled the handler returns at once: that step changes no file, no
\* directory and no notification, the invocation has done nothing to the
\* file system and shown nothing, before or after; and an invocation goes on
\* to the next prompt only with a non-empty answer.
C1_AbortStep(i) ==
    /\ (pc[i] = "name" /\ pc'[i] # "name") =>
          \/ pc'[i] = "prefix" /\ loc'[i].name # ""
          \/ /\ pc'[i] = "done" /\ loc'[i].outcome = "cancelName"
             /\ UNCHANGED <<files, dirs, notif, fx>>
    /\ (pc[i] = "prefix" /\ pc'[i] # "prefix") =>
          \/ pc'[i] = "desc" /\ loc'[i].prefixInput # "" /\ loc'[i].name = loc[i].name
          \/ /\ pc'[i] = "done" /\ loc'[i].outcome = "cancelPrefix"
             /\ UNCHANGED <<files, dirs, notif, fx>>

C1_CancelHasNoSideEffects ==
    /\ [][\A i \in Procs : C1_AbortStep(i)]_vars
    /\ [](\A i \in Procs :
             Cancelled(i) =>
                /\ pc[i] = "done" /\ fx[i] = NoFx /\ notif[i] = << >>
                /\ loc[i].info = << >>)

C1_Witness ==
    \E i, j \in Procs :
        /\ loc[i].outcome = "cancelName"
        /\ loc[j].outcome = "cancelPrefix"

\* C2: an invocation whose prefixes filter down to none never reaches
\* saveSnippet, and every entry a save has written holds at least one
\* prefix.
C2_NoSaveWithoutPrefix ==
    /\ \A i \in Procs : loc[i].info # << >> => loc[i].info[1].prefixes # << >>
    /\ \A p \in DOMAIN lastSaved : \A n \in DOMAIN lastSaved[p] :
          LET e == lastSaved[p][n]
          IN (e.j = "obj" /\ HasKey(e.props, "prefix")) =>
                GetProp(e.props, "prefix").items # << >>

\* C3: a save never changes a file whose content the parser rejects; the
\* invocation that read it writes nothing and ends with exactly one
\* notification, an error carrying the parser's diagnostic.
C3_Diagnostics(content) ==
    {<<formatParseErrors(content, JsoncParse(content).errors)>>,
     <<[kind |-> "Fatal parsing error: ", blocks |-> << >>]>>}

C3_SaveStep(i) ==
    (pc[i] = "save" /\ pc'[i] = "notify" /\ fx'[i].reads = 1
      /\ (HasErrors(files[fx'[i].path]) \/
          (loc'[i].error # << >> /\ loc'[i].error[1].detail # << >>))) =>
        /\ files' = files
        /\ fx'[i].writes = 0
        /\ loc'[i].outcome = "failed"
        /\ loc'[i].error[1].detail \in C3_Diagnostics(files[fx'[i].path])

C3_Rejected(i) ==
    /\ pc[i] = "done" /\ fx[i].reads = 1
    /\ fx[i].path \in DOMAIN files /\ HasErrors(files[fx[i].path])

C3_ParseErrorAbortsSave ==
    /\ [][\A i \in Procs : C3_SaveStep(i)]_vars
    /\ [][\A p \in DOMAIN files :
            HasErrors(files[p]) => p \in DOMAIN files' /\ files'[p] = files[p]]_vars
    /\ [](\A i \in Procs :
             C3_Rejected(i) =>
                /\ fx[i].writes = 0
                /\ Len(notif[i]) = 1
                /\ notif[i][1].kind = "error"
                /\ notif[i][1].detail \in C3_Diagnostics(files[fx[i].path]))

C3_Witness ==
    \E i \in Procs :
        /\ C3_Rejected(i)
        /\ notif[i][1].detail = <<formatParseErrors(files[fx[i].path],
                                                    JsoncParse(files[fx[i].path]).errors)>>
        /\ Len(notif[i][1].detail[1].blocks) > 1

\* C4: a successful save writes the mapping parsed from the file before it
\* (none when the file was absent) with the name set to the new entry; so
\* each file a save has written, or that parsed at the start, parses to the
\* latest saved entry for each saved name and to the original value for
\* every other name.
C4_SaveStep(i) ==
    (pc[i] = "save" /\ loc'[i].outcome = "saved") =>
        LET p == fx'[i].path
            info == loc[i].info[1]
            entry == SnippetBody(info.prefixes, escapeSnippetText(loc[i].text),
                                 info.description)
            before == IF p \in DOMAIN files THEN ParsedMap(files[p]) ELSE << >>
        IN /\ p \in DOMAIN files'
           /\ ~HasErrors(files'[p])
           /\ JsoncParse(files'[p]).value.j = "obj"
           /\ ParsedMap(files'[p]) = (info.name :> entry) @@ before

C4_MergeKeepsOtherEntries ==
    /\ [][\A i \in Procs : C4_SaveStep(i)]_vars
    /\ [](\A p \in DOMAIN lastSaved :
             /\ p \in DOMAIN files
             /\ ~HasErrors(files[p])
             /\ ParsedMap(files[p]) = lastSaved[p])

C4_Witness ==
    \E i, j \in Procs :
        /\ i # j
        /\ loc[i].outcome = "saved" /\ loc[j].outcome = "saved"
        /\ fx[i].path = fx[j].path /\ fx[i].name = fx[j].name
        /\ DOMAIN lastSaved[fx[i].path] = {"A", "Z"}
        /\ lastSaved[fx[i].path]["A"] # OldEntry
        /\ lastSaved[fx[i].path]["Z"] = OldEntry

\* C5: on Linux (APPDATA unset, HOME set) a save for VS Code or Cursor
\* writes $HOME/.config/<Code or Cursor>/User/snippets/<language>.json.
C5_DocumentedFolder == IF host.appName = "Visual Studio Code" THEN "Code" ELSE "Cursor"

C5_LinuxConfigDir ==
    \A i \in Procs :
        (/\ fx[i].writes > 0
         /\ host.platform = "linux" /\ host.APPDATA = Undefined /\ Truthy(host.HOME)
         /\ host.appName \in {"Visual Studio Code", "Cursor"}) =>
            fx[i].path = host.HOME[1] \o "/.config/" \o C5_DocumentedFolder
                         \o "/User/snippets/" \o fx[i].language \o ".json"

\* C6: the path a save uses has, after the base directory, the folder
\* "Code" for the product name "Visual Studio Code" exactly, else "Cursor"
\* for a name that contains "Cursor", else the product name itself.
C6_Folder ==
    CASE host.appName = "Visual Studio Code" -> "Code"
      [] host.appName \in {"Cursor", "Cursor Nightly"} -> "Cursor"
      [] OTHER -> host.appName

C6_EditorFolder ==
    \A i \in Procs :
        fx[i].saves > 0 =>
            fx[i].path = PathJoin(Sep(host.platform),
                                  <<BaseDir(host), C6_Folder, "User", "snippets",
                                    fx[i].language \o ".json">>)

C6_Witness ==
    /\ host.appName = "Visual Studio Code - Insiders"
    /\ fx[1].writes = 1
    /\ Includes(fx[1].path, "Visual Studio Code - Insiders")

\* C7: escapeSnippetText returns one line per line of the text; in each a
\* backslash is always followed by a backslash, a quote or the letter t,
\* which it escapes, and no quote, tab or carriage return stands otherwise;
\* unescaped, the lines are the text's lines without carriage returns.
RECURSIVE C7_WellEscaped(_)
C7_WellEscaped(line) ==
    IF line = "" THEN TRUE
    ELSE IF CharAt(line, 1) = BackSlash
    THEN /\ Len(line) >= 2
         /\ CharAt(line, 2) \in {BackSlash, Quote, "t"}
         /\ C7_WellEscaped(SubSeq(line, 3, Len(line)))
    ELSE /\ CharAt(line, 1) \notin {Quote, Tab, CR}
         /\ C7_WellEscaped(SubSeq(line, 2, Len(line)))

RECURSIVE C7_Unescape(_)
C7_Unescape(line) ==
    IF line = "" THEN ""
    ELSE IF CharAt(line, 1) = BackSlash /\ Len(line) >= 2
    THEN (IF CharAt(line, 2) = "t" THEN Tab ELSE CharAt(line, 2))
         \o C7_Unescape(SubSeq(line, 3, Len(line)))
    ELSE CharAt(line, 1) \o C7_Unescape(SubSeq(line, 2, Len(line)))

C7_Count(s, c) == Cardinality({k \in 1..Len(s) : CharAt(s, k) = c})

RECURSIVE C7_Rejoin(_)
C7_Rejoin(lines) ==
    IF Len(lines) = 1 THEN C7_Unescape(lines[1])
    ELSE C7_Unescape(lines[1]) \o LF \o C7_Rejoin(Tail(lines))

C7_EscapeLines ==
    (probe.fn = "escape" /\ probe.done) =>
        /\ Len(probe.lines) = C7_Count(probe.text, LF) + 1
        /\ \A k \in 1..Len(probe.lines) : C7_WellEscaped(probe.lines[k])
        /\ C7_Rejoin(probe.lines) = ReplaceAll(probe.text, CR, "")

C7_Witness ==
    /\ probe.fn = "escape" /\ probe.done
    /\ probe.text = BackSlash \o Quote \o LF
    /\ probe.lines = <<BackSlash \o BackSlash \o BackSlash \o Quote, "">>

\* C8: each block of formatParseErrors gives the line as 1 plus the line
\* feeds before the offset, the column as 1 plus the units from the start
\* of that line to the offset, both at least 1, and the whole text of that
\* line; the blocks follow the order of the errors.
C8_LineStart(content, offset) ==
    LET before == {k \in 1..offset : content[k] = NL}
    IN IF before = {} THEN 0 ELSE CHOOSE k \in before : \A h \in before : h <= k

C8_LineEnd(content, start) ==
    LET after == {k \in (start + 1)..Len(content) : content[k] = NL}
    IN IF after = {} THEN Len(content)
       ELSE (CHOOSE k \in after : \A h \in after : k <= h) - 1

C8_BlockRight(content, error, block) ==
    LET start == C8_LineStart(content, error.offset)
    IN /\ block.line = 1 + Cardinality({k \in 1..error.offset : content[k] = NL})
       /\ block.column = 1 + (error.offset - start)
       /\ block.line >= 1 /\ block.column >= 1
       /\ block.text = SubSeq(content, start + 1, C8_LineEnd(content, start))
       /\ block.error = error.error

C8_OffLineFeeds ==
    (probe.fn = "format" /\ probe.done) =>
        /\ Len(probe.blocks) = Len(probe.errors)
        /\ \A k \in 1..Len(probe.errors) :
              (probe.errors[k].offset = Len(probe.content)
                 \/ probe.content[probe.errors[k].offset + 1] # NL) =>
                    C8_BlockRight(probe.content, probe.errors[k], probe.blocks[k])

\* C8 in the command: the parser reports no error at a line feed.
C8_ParserOffsetsOffLineFeeds ==
    \A p \in DOMAIN files :
        \A k \in 1..Len(JsoncParse(files[p]).errors) :
            LET o == JsoncParse(files[p]).errors[k].offset
            IN o = Len(files[p]) \/ files[p][o + 1] # NL

\* C9: an invocation that has collected its snippet calls saveSnippet once
\* and writes at most once; it ends with exactly one notification, the
\* success message if and only if its write was done, the error message if
\* and only if the save failed.
C9_SaveStep(i) ==
    (pc[i] = "save" /\ pc'[i] # "save") =>
        /\ pc'[i] = "notify"
        /\ fx[i].saves = 0 /\ fx'[i].saves = 1
        /\ notif'[i] = << >>
        /\ loc'[i].outcome = "saved" <=> fx'[i].writes = 1
        /\ loc'[i].outcome = "failed" <=> fx'[i].writes = 0

C9_OneSaveOneNotification ==
    /\ [][\A i \in Procs : C9_SaveStep(i)]_vars
    /\ [](\A i \in Procs :
             /\ fx[i].saves <= 1 /\ fx[i].writes <= 1 /\ Len(notif[i]) <= 1
             /\ (pc[i] = "done" /\ Completed(i)) =>
                   /\ fx[i].saves = 1
                   /\ Len(notif[i]) = 1
                   /\ notif[i][1].kind = "info" <=> fx[i].writes = 1
                   /\ notif[i][1].kind = "error" <=> loc[i].outcome = "failed"
                   /\ loc[i].outcome = "saved" <=> fx[i].writes = 1)

C9_Witness ==
    \E i, j \in Procs :
        /\ pc[i] = "done" /\ loc[i].outcome = "saved" /\ notif[i][1].kind = "info"
        /\ pc[j] = "done" /\ loc[j].outcome = "failed" /\ notif[j][1].kind = "error"

\* C10: when two invocations, however their prompts interleaved, have both
\* saved snippets of different names to one file, the file holds both
\* names.
C10_NoLostUpdate ==
    \A i, j \in Procs :
        (/\ i # j
         /\ loc[i].outcome = "saved" /\ loc[j].outcome = "saved"
         /\ fx[i].path = fx[j].path /\ fx[i].name # fx[j].name) =>
            /\ ~HasErrors(files[fx[i].path])
            /\ {fx[i].name, fx[j].name} \subseteq DOMAIN ParsedMap(files[fx[i].path])

\* Both have saved and neither has yet shown its notification.
C10_Witness ==
    /\ pc[1] = "notify" /\ pc[2] = "notify"
    /\ loc[1].outcome = "saved" /\ loc[2].outcome = "saved"
    /\ fx[1].path = fx[2].path /\ fx[1].name # fx[2].name

====
